---- MODULE Spec2Model ----
(***************************************************************************)
(* Model of the Contrast verify gate: a run of ContrastVerifyAction        *)
(* (src/contrastverify/verify.py) driven in the order of the entry point   *)
(* (src/verify.py, __main__), against a backend whose answers are chosen   *)
(* nondeterministically; validate_inputs of src/verify.py and the          *)
(* InputHelper functions, which read the environment, have specifications  *)
(* of their own (ConfigSpec, GetInputSpec, SeveritiesSpec, BaselineSpec);  *)
(* MainSpec is the whole entry point, from validate_inputs to the outcome. *)
(*                                                                         *)
(* Python strings that the code inspects (severity labels, application     *)
(* names, version tags, build numbers) are sequences of one-character      *)
(* strings, so that str.upper(), == and re.fullmatch are computed and not  *)
(* assumed.  Python's None is the value None below.  Log output is the     *)
(* info/error stream; debug output is a no-op unless DEBUG is set and is   *)
(* left out.                                                               *)
(***************************************************************************)
EXTENDS Integers, Sequences, FiniteSets, TLC

\* ------------------------------------------------------------------ bounds
MaxTraces == 2
MaxCount == 2
MaxApps == 2

\* ----------------------------------------------------------------- strings
None == <<"None">>
EmptyStr == <<>>

Truthy(v) == v /= None /\ v /= EmptyStr

\* The whitespace str.strip() and str.split() know, as far as inputs hold it.
Whitespace == {" ", "\t", "\n", "\r"}

UpperChar(c) ==
    CASE c = "a" -> "A" [] c = "c" -> "C" [] c = "g" -> "G" [] c = "h" -> "H"
      [] c = "i" -> "I" [] c = "l" -> "L" [] c = "o" -> "O" [] c = "p" -> "P"
      [] c = "r" -> "R" [] c = "t" -> "T" [] c = "w" -> "W"
      [] c = "d" -> "D" [] c = "e" -> "E" [] c = "m" -> "M" [] c = "n" -> "N"
      [] c = "u" -> "U"
      [] OTHER -> c

Upper(s) == [i \in 1..Len(s) |-> UpperChar(s[i])]

CRITICAL == <<"C", "R", "I", "T", "I", "C", "A", "L">>
HIGH == <<"H", "I", "G", "H">>
LOW == <<"L", "O", "W">>
MEDIUM == <<"M", "E", "D", "I", "U", "M">>
NOTE == <<"N", "O", "T", "E">>

\* ------------------------------------------------------------------- regex
\* A compiled pattern is a sequence of atoms; an atom is a literal character
\* or "." (any character), optionally starred.
Atom(c, star) == [c |-> c, star |-> star]

CharOk(c, x) == c = "." \/ c = x

RECURSIVE Ends(_, _, _, _)
\* The positions of s at which a match of p[k..] starting at position i ends.
Ends(p, k, s, i) ==
    IF k > Len(p) THEN {i}
    ELSE IF p[k].star
         THEN UNION { Ends(p, k + 1, s, j) :
                      j \in { j \in i..Len(s) :
                              \A m \in (i + 1)..j : CharOk(p[k].c, s[m]) } }
         ELSE IF i < Len(s) /\ CharOk(p[k].c, s[i + 1])
              THEN Ends(p, k + 1, s, i + 1)
              ELSE {}

prefixmatch(p, s) == Ends(p, 1, s, 0) /= {}

fullmatch(p, s) == Len(s) \in Ends(p, 1, s, 0)

\* re.compile("10*")
Pat10s == <<Atom("1", FALSE), Atom("0", TRUE)>>

\* ------------------------------------------------------ inputs of the model
\* The configuration records validate_inputs can hand to the constructor.
AppIds == {<<"i", "1">>}
AppNames == {<<"A", "p", "p">>}
BuildNumbers == {None, EmptyStr, <<"1", "2">>}
SeverityLists == {<<>>, <<CRITICAL, HIGH>>}
NoPattern == [compiled |-> FALSE, atoms |-> <<>>]
Compiled(p) == [compiled |-> TRUE, atoms |-> p]
BaselinePatterns == {NoPattern, Compiled(Pat10s)}
JobStartTimes == {7}
ApiKeys == {<<"k">>}
Authorizations == {<<"a">>}
FailThresholds == {0, 1}

\* What the backend may answer.
Applications ==
    { [name |-> <<"A", "p", "p">>, app_id |-> <<"i", "2">>],
      [name |-> <<"a", "p", "p">>, app_id |-> <<"i", "3">>] }

Traces ==
    { [severity |-> <<"C", "r", "i", "t", "i", "c", "a", "l">>,
       app_version_tags |-> <<>>],
      [severity |-> <<"H", "i", "g", "h">>,
       app_version_tags |-> << <<"1", "2">> >>],
      [severity |-> <<"l", "o", "w">>,
       app_version_tags |-> << <<"2">>, <<"1", "0">> >>] }

Absent == "absent"

Policy(opt_into_query, is_job_start_time) ==
    [outcome |-> "FAILED", name |-> "X", opt_into_query |-> opt_into_query,
     is_job_start_time |-> is_job_start_time]

Policies ==
    { Policy("true", "true"), Policy("false", "false"), Policy("false", "true"),
      Policy("true", Absent) }

NoPolicy == [outcome |-> Absent, name |-> Absent, opt_into_query |-> Absent,
             is_job_start_time |-> Absent]

SecurityCheckResponses ==
    { [result |-> "true", job_outcome_policy |-> NoPolicy],
      [result |-> "null", job_outcome_policy |-> NoPolicy] }
    \cup { [result |-> "false", job_outcome_policy |-> p] : p \in Policies }

SeqsUpTo(S, n) == UNION { [1..k -> S] : k \in 0..n }

\* ------------------------------------------------------------------- state
VARIABLES
    app_id, app_name, baseline_build_number_regex, build_number,
    fail_threshold, job_start_time, job_start_time_provided, severities,
    app_id_verified, github_actions, contrast_api_key,
    contrast_authorization,
    pc, job_outcome_policy_result, traces, offset, count, pages, fetches,
    severity_breakdown, open_vulnerabilities,
    requests, sent_headers, last_response, messages, summary, outcome,
    exit_code,
    environ, config, returned

\* os.environ, the record validate_inputs builds from it, and what the last
\* call of an InputHelper function returned.
inputvars == <<environ, config, returned>>

cfgvars == <<inputvars, app_name, baseline_build_number_regex, build_number,
             fail_threshold, job_start_time, job_start_time_provided,
             severities, github_actions, contrast_api_key,
             contrast_authorization>>

fetchvars == <<traces, offset, count, pages, fetches>>

vars == <<app_id, app_id_verified, cfgvars, pc, job_outcome_policy_result,
          fetchvars, severity_breakdown, open_vulnerabilities, requests,
          sent_headers, last_response, messages, summary, outcome, exit_code>>

\* What the backend answered last: whether raise_for_status passed and, for
\* the name search, the applications of the body.
Answer(ok, applications) == [ok |-> ok, applications |-> applications]

NoResponse == [result |-> Absent, job_outcome_policy |-> NoPolicy]

\* Nothing has been sent, printed or decided yet.
RunStart ==
    /\ job_outcome_policy_result = NoResponse
    /\ traces = <<>>
    /\ offset = 0
    /\ count = 0
    /\ pages = 0
    /\ fetches = 0
    /\ severity_breakdown = <<>>
    /\ open_vulnerabilities = 0
    /\ requests = <<>>
    /\ sent_headers = <<>>
    /\ last_response = Answer(TRUE, <<>>)
    /\ messages = <<>>
    /\ summary = <<>>
    /\ outcome = "Unresolved"
    /\ exit_code = -1

\* An environment with no variable defined, a configuration record with no
\* key; the run below starts from the constructed action and reads neither.
NoEnviron == [v \in {} |-> None]
NoConfig == [k \in {} |-> None]
NoCall == [fn |-> "none", arg |-> <<>>, value |-> <<>>]

\* ContrastVerifyAction.__init__ on a configuration holding exactly one of
\* APP_ID and APP_NAME.  github_actions is GITHUB_ACTIONS == "true"; under
\* GitHub Actions the step summary file is there and writable.
Init ==
    /\ \/ app_id \in AppIds /\ app_name = None
       \/ app_id = None /\ app_name \in AppNames
    /\ baseline_build_number_regex \in BaselinePatterns
    /\ build_number \in BuildNumbers
    /\ fail_threshold \in FailThresholds
    /\ job_start_time_provided \in BOOLEAN
    /\ job_start_time \in (IF job_start_time_provided THEN JobStartTimes ELSE {0})
    /\ severities \in SeverityLists
    /\ app_id_verified = FALSE
    /\ github_actions \in BOOLEAN
    /\ contrast_api_key \in ApiKeys
    /\ contrast_authorization \in Authorizations
    /\ pc = "validate_connection"
    /\ environ = NoEnviron
    /\ config = NoConfig
    /\ returned = NoCall
    /\ RunStart

\* ------------------------------------------------------- requests, messages
\* __version__ of the version module; the check of a release reads the same
\* whatever the number is.
version == <<"2", ".", "0">>

\* requests.utils.default_user_agent() and the interpreter's version.
requests_default_user_agent ==
    <<"p", "y", "t", "h", "o", "n", "-", "r", "e", "q", "u", "e", "s", "t",
      "s", "/", "2", ".", "3", "1">>

python_version == <<"3", ".", "9", ".", "1">>

integration_verify ==
    <<"i", "n", "t", "e", "g", "r", "a", "t", "i", "o", "n", "-", "v", "e",
      "r", "i", "f", "y">>

github_action_suffix ==
    <<"-", "g", "i", "t", "h", "u", "b", "-", "a", "c", "t", "i", "o", "n">>

RECURSIVE split_whitespace_from(_, _, _)
\* str.split(): the runs of characters that are no whitespace, from character
\* i on, token being the run read so far.
split_whitespace_from(s, i, token) ==
    IF i > Len(s) THEN (IF token = <<>> THEN <<>> ELSE <<token>>)
    ELSE IF s[i] \in Whitespace
         THEN (IF token = <<>> THEN <<>> ELSE <<token>>)
              \o split_whitespace_from(s, i + 1, <<>>)
         ELSE split_whitespace_from(s, i + 1, Append(token, s[i]))

split_whitespace(s) == split_whitespace_from(s, 1, <<>>)

user_agent_without_suffix ==
    integration_verify \o <<"/">> \o version \o <<" ">>
      \o requests_default_user_agent \o <<" ">>
      \o <<"p", "y", "t", "h", "o", "n", "/">> \o python_version

\* The user_agent property, lines 35-46; the cached string is the one the
\* first use builds, the environment being the same all along.
user_agent ==
    LET github_suffix == IF github_actions THEN github_action_suffix ELSE <<>>
        integration_version ==
            integration_verify \o github_suffix \o <<"/">> \o version
    IN integration_version \o <<" ">> \o requests_default_user_agent
         \o <<" ">> \o <<"p", "y", "t", "h", "o", "n", "/">> \o python_version

HeaderNames ==
    {"Accept", "Content-Type", "Api-Key", "Authorization", "User-Agent"}

\* The teamserver_headers property, lines 48-60.
teamserver_headers ==
    [name \in HeaderNames |->
        CASE name = "Accept" -> <<"application/json">>
          [] name = "Content-Type" -> <<"application/json">>
          [] name = "Api-Key" -> contrast_api_key
          [] name = "Authorization" -> contrast_authorization
          [] name = "User-Agent" -> user_agent]

\* The request of get_request, lines 71-78.
Get(path, arg) == [method |-> "GET", path |-> path, arg |-> arg, offset |-> 0]

\* The request of post_request, lines 80-87.
Post(path, arg, off, body) ==
    [method |-> "POST", path |-> path, arg |-> arg, offset |-> off,
     body |-> body]

\* requests.get / requests.post with headers=self.teamserver_headers: the
\* request joins the log, sent_headers are the headers it went out with.
send(request) ==
    /\ requests' = Append(requests, request)
    /\ sent_headers' = teamserver_headers

Info(kind, args) == [level |-> "info", kind |-> kind, args |-> args]
Error(kind, args) == [level |-> "error", kind |-> kind, args |-> args]

set_failed_exiting_clean(msgs, message, result) ==
    /\ messages' = Append(msgs, message)
    /\ pc' = "done"
    /\ exit_code' = 0
    /\ outcome' = result

\* OutputHelper.set_failed: the error message, then sys.exit(1).
set_failed(msgs, message, result) ==
    /\ messages' = Append(msgs, message)
    /\ pc' = "done"
    /\ exit_code' = 1
    /\ outcome' = result

\* The failed step is entered again.
Retried(msgs, exception) ==
    /\ messages' = msgs
    /\ UNCHANGED <<pc, exit_code, outcome>>

\* An exception nothing catches: the interpreter prints the traceback and
\* exits with status 1; nothing goes through the output helper.
Uncaught(msgs, exception) ==
    /\ messages' = msgs
    /\ pc' = "done"
    /\ exit_code' = 1
    /\ outcome' = exception

Goto(msgs, next) ==
    /\ messages' = msgs
    /\ pc' = next
    /\ UNCHANGED <<exit_code, outcome>>

\* ------------------------------------------------------ connection checks
validate_connection ==
    /\ pc = "validate_connection"
    /\ send(Get("profile/", <<>>))
    /\ \E ok \in BOOLEAN :
         /\ last_response' = Answer(ok, <<>>)
         /\ IF ok THEN Goto(messages, "validate_organization")
            ELSE set_failed(messages, Error("connection_test_failed", <<>>),
                            "FailConnection")
    /\ UNCHANGED <<app_id, app_id_verified, cfgvars, job_outcome_policy_result,
                   fetchvars, severity_breakdown, open_vulnerabilities, summary>>

validate_organization ==
    /\ pc = "validate_organization"
    /\ send(Get("organizations/", <<>>))
    /\ \E ok \in BOOLEAN :
         /\ last_response' = Answer(ok, <<>>)
         /\ IF ok THEN Goto(messages, "determine_application_id")
            ELSE set_failed(messages, Error("organization_test_failed", <<>>),
                            "FailConnection")
    /\ UNCHANGED <<app_id, app_id_verified, cfgvars, job_outcome_policy_result,
                   fetchvars, severity_breakdown, open_vulnerabilities, summary>>

\* ---------------------------------------------------- application resolver
RECURSIVE Filter(_, _)
\* filter(lambda app: app["name"] == name, applications), in order.
Filter(applications, name) ==
    IF applications = <<>> THEN <<>>
    ELSE IF Head(applications).name = name
         THEN <<Head(applications)>> \o Filter(Tail(applications), name)
         ELSE Filter(Tail(applications), name)

RECURSIVE FilterIgnoringCase(_, _)
FilterIgnoringCase(applications, name) ==
    IF applications = <<>> THEN <<>>
    ELSE IF Upper(Head(applications).name) = Upper(name)
         THEN <<Head(applications)>>
              \o FilterIgnoringCase(Tail(applications), name)
         ELSE FilterIgnoringCase(Tail(applications), name)

matching_apps_ignoring_case(applications) ==
    FilterIgnoringCase(applications, app_name)

\* Lines 126-128.
matching_named_apps(applications) == Filter(applications, app_name)

application_not_found_ignored(msgs, next) ==
    /\ app_id_verified' = TRUE
    /\ Goto(Append(msgs, Info("using_provided_application_id", <<app_id>>)),
            next)

application_not_found_flagged(msgs, next) ==
    /\ app_id_verified' = TRUE
    /\ set_failed(msgs, Error("unable_to_find_application", <<app_id>>),
                  "FailResolution")

\* Lines 115-118: the existence check raised a RequestException.
application_not_found(msgs, next) ==
    /\ app_id_verified' = FALSE
    /\ set_failed(msgs, Error("unable_to_find_application", <<app_id>>),
                  "FailResolution")

\* The body of determine_application_id; msgs are the messages the caller has
\* emitted so far in this step, next is where the caller goes on.
determine_application_id(msgs, next) ==
    IF Truthy(app_id)
    THEN IF ~app_id_verified
         THEN /\ send(Get("applications/{id}", app_id))
              /\ \E ok \in BOOLEAN :
                   /\ last_response' = Answer(ok, <<>>)
                   /\ IF ok
                      THEN /\ app_id_verified' = TRUE
                           /\ Goto(Append(msgs,
                                          Info("using_provided_application_id",
                                               <<app_id>>)), next)
                      ELSE application_not_found(msgs, next)
              /\ UNCHANGED app_id
         ELSE /\ Goto(Append(msgs, Info("using_provided_application_id",
                                         <<app_id>>)), next)
              /\ UNCHANGED <<app_id, app_id_verified, requests, sent_headers,
                             last_response>>
    ELSE /\ send(Get("applications/name", app_name))
         /\ \/ /\ last_response' = Answer(FALSE, <<>>)
               /\ Uncaught(msgs, "RequestException")
               /\ UNCHANGED app_id
            \/ \E applications \in SeqsUpTo(Applications, MaxApps) :
                 LET found == matching_named_apps(applications) IN
                 /\ last_response' = Answer(TRUE, applications)
                 /\ IF Len(found) /= 1
                    THEN /\ set_failed(msgs,
                                       Error("could_not_match_one_app",
                                             <<app_name, Len(found)>>),
                                       "FailResolution")
                         /\ UNCHANGED app_id
                    ELSE /\ app_id' = found[1].app_id
                         /\ Goto(Append(msgs,
                                        Info("application_id_for",
                                             <<app_name, found[1].app_id>>)),
                                 next)
         /\ UNCHANGED app_id_verified

\* The call of the entry point.
resolve_application ==
    /\ pc = "determine_application_id"
    /\ determine_application_id(messages, "perform_security_check")
    /\ UNCHANGED <<cfgvars, job_outcome_policy_result, fetchvars,
                   severity_breakdown, open_vulnerabilities, summary>>

\* ------------------------------------------------------------ security check
version_tags == IF build_number /= EmptyStr THEN <<build_number>> ELSE <<>>

security_check_body_of_configured_id ==
    [application_id |-> IF Truthy(app_name) THEN None ELSE app_id,
     job_start_time |-> job_start_time,
     query_by |-> "APP_VERSION_TAG",
     app_version_tags |-> version_tags,
     origin |-> split_whitespace(user_agent)[1]]

\* The body of lines 146-154.
security_check_body ==
    [application_id |-> app_id,
     job_start_time |-> job_start_time,
     query_by |-> "APP_VERSION_TAG",
     app_version_tags |-> version_tags,
     origin |-> split_whitespace(user_agent)[1]]

\* The POST of perform_security_check and, from its answer, lines 234-237 of
\* verify_application: fetch_vulns starts whatever the result is.
post_security_check(msgs) ==
    /\ send(Post("securityChecks", app_id, 0, security_check_body))
    /\ \/ /\ last_response' = Answer(FALSE, <<>>)
          /\ Uncaught(msgs, "RequestException")
          /\ UNCHANGED <<job_outcome_policy_result, fetchvars>>
       \/ \E response \in SecurityCheckResponses :
            /\ last_response' = Answer(TRUE, <<>>)
            /\ job_outcome_policy_result' = response
            /\ Goto(msgs, "fetch_vulns")
            /\ traces' = <<>>
            /\ offset' = 0
            /\ pages' = 0
            /\ fetches' = fetches + 1
            /\ UNCHANGED count

\* verify_application up to the first backend request of perform_security_check:
\* the app_id property either answers from the cache or resolves first.
perform_security_check ==
    /\ pc = "perform_security_check"
    /\ LET msgs == IF build_number /= EmptyStr
                   THEN Append(messages, Info("using_app_version_tags",
                                              <<build_number>>))
                   ELSE messages
       IN IF Truthy(app_id) /\ app_id_verified
          THEN /\ post_security_check(msgs)
               /\ UNCHANGED <<app_id, app_id_verified>>
          ELSE /\ determine_application_id(msgs, "securityChecks")
               /\ UNCHANGED <<job_outcome_policy_result, fetchvars>>
    /\ UNCHANGED <<cfgvars, severity_breakdown, open_vulnerabilities, summary>>

\* The POST itself, when the app_id property had to resolve first.
security_check_request ==
    /\ pc = "securityChecks"
    /\ post_security_check(messages)
    /\ UNCHANGED <<app_id, app_id_verified, cfgvars, severity_breakdown,
                   open_vulnerabilities, summary>>

\* ------------------------------------------------------------- fetch_vulns
filter_body_from_zero ==
    [severities |-> severities,
     startDate |-> 0,
     timestampFilter |-> "FIRST",
     quickFilter |-> "OPEN",
     has_appVersionTags |-> Truthy(build_number),
     appVersionTags |-> IF Truthy(build_number) THEN <<build_number>> ELSE <<>>]

\* The body of lines 162-169.
filter_body ==
    [severities |-> severities,
     startDate |-> job_start_time,
     timestampFilter |-> "FIRST",
     quickFilter |-> "OPEN",
     has_appVersionTags |-> Truthy(build_number),
     appVersionTags |-> IF Truthy(build_number) THEN <<build_number>> ELSE <<>>]

include_vuln_on_prefix(trace) ==
    ~ /\ baseline_build_number_regex.compiled
      /\ \E i \in 1..Len(trace.app_version_tags) :
            prefixmatch(baseline_build_number_regex.atoms,
                        trace.app_version_tags[i])

\* The loop over trace["app_version_tags"] of lines 192-199.
include_vuln(trace) ==
    ~ /\ baseline_build_number_regex.compiled
      /\ \E i \in 1..Len(trace.app_version_tags) :
            fullmatch(baseline_build_number_regex.atoms,
                      trace.app_version_tags[i])

ZeroBreakdown == [severity \in { severities[i] : i \in 1..Len(severities) } |-> 0]

RECURSIVE Tally(_, _, _)
\* Lines 189-202 from trace i on: the breakdown, or a KeyError at line 202.
Tally(ts, i, breakdown) ==
    IF i > Len(ts) THEN [KeyError |-> FALSE, breakdown |-> breakdown]
    ELSE LET severity == Upper(ts[i].severity) IN
         IF include_vuln(ts[i])
         THEN IF severity \in DOMAIN breakdown
              THEN Tally(ts, i + 1,
                         [breakdown EXCEPT ![severity] = breakdown[severity] + 1])
              ELSE [KeyError |-> TRUE, breakdown |-> breakdown]
         ELSE Tally(ts, i + 1, breakdown)

severities_breakdown(ts) == Tally(ts, 1, ZeroBreakdown)

RECURSIVE SumOver(_, _, _)
SumOver(breakdown, keys, i) ==
    IF i > Len(keys) THEN 0
    ELSE breakdown[keys[i]] + SumOver(breakdown, keys, i + 1)

sum_of_first(breakdown) ==
    IF severities = <<>> THEN 0 ELSE breakdown[severities[1]]

\* sum(severity_breakdown.values())
sum(breakdown) == SumOver(breakdown, severities, 1)

loop_ends_on_short_page(new_offset, reported, received_traces) ==
    new_offset >= reported \/ received_traces < MaxTraces

\* The loop ends when the accumulated number equals the reported total or the
\* page is empty (line 184).
loop_ends(new_offset, reported, received_traces) ==
    new_offset = reported \/ received_traces = 0

\* ------------------------------------------------------- outcome reporting
\* The keys of severity_emoji, lines 210-216.
severity_emoji == {CRITICAL, HIGH, MEDIUM, LOW, NOTE}

\* Line 220: severity_emoji[severity] for a configured severity that is no
\* key raises a KeyError; the line is reached under GitHub Actions only.
summary_raises ==
    /\ github_actions
    /\ \E i \in 1..Len(severities) : severities[i] \notin severity_emoji

write_vulnerability_summary_everywhere(breakdown) ==
    summary' = Append(summary,
                      [i \in 1..Len(severities) |->
                         <<severities[i], breakdown[severities[i]]>>])

\* write_vulnerability_summary: a table of the configured severities and
\* their counts, written only under GitHub Actions.
write_vulnerability_summary(breakdown) ==
    IF ~github_actions \/ summary_raises THEN UNCHANGED summary
    ELSE summary' = Append(summary,
                           [i \in 1..Len(severities) |->
                              <<severities[i], breakdown[severities[i]]>>])

\* verify_application returns and the entry point ends: exit status 0.
passes(msgs) ==
    /\ messages' = msgs
    /\ pc' = "done"
    /\ exit_code' = 0
    /\ outcome' = "Pass"

build_number_not_blank == build_number /= EmptyStr

\* The test of self._build_number at line 245.
build_number_given == Truthy(build_number)

\* Lines 239-258: the security check failed a policy.
policy_fails(msgs, breakdown) ==
    LET jop_policy == job_outcome_policy_result.job_outcome_policy
        noted == IF build_number_given /\ jop_policy.opt_into_query = "false"
                 THEN Append(msgs, Info("all_open_vulnerabilities_considered",
                                        <<jop_policy.name>>))
                 ELSE msgs
    IN IF ~job_start_time_provided /\ jop_policy.is_job_start_time = Absent
       THEN \* KeyError: 'is_job_start_time'
            /\ Uncaught(noted, "KeyError_is_job_start_time")
            /\ UNCHANGED summary
       ELSE LET msgs_noted ==
                    IF ~job_start_time_provided
                       /\ jop_policy.is_job_start_time = "true"
                    THEN Append(noted, Info("zero_passed_as_job_start_time",
                                            <<jop_policy.name>>))
                    ELSE noted
            IN /\ write_vulnerability_summary(breakdown)
               /\ IF summary_raises
                  THEN Uncaught(msgs_noted, "KeyError_severity_emoji")
                  ELSE set_failed(msgs_noted,
                                  Error("gate_fails_policy",
                                        <<jop_policy.outcome, jop_policy.name>>),
                                  "FailPolicy")

above_or_at_threshold(open) == open >= fail_threshold

\* Line 274: the gate fails above the threshold.
above_threshold(open) == open > fail_threshold

\* Lines 270-281: the open count against the threshold.
threshold_check(msgs, breakdown) ==
    LET open == sum(breakdown) IN
    /\ open_vulnerabilities' = open
    /\ write_vulnerability_summary(breakdown)
    /\ IF summary_raises
       THEN Uncaught(msgs, "KeyError_severity_emoji")
       ELSE IF above_threshold(open)
       THEN set_failed(msgs,
                       Error("count_above_threshold", <<open, fail_threshold>>),
                       "FailThreshold")
       ELSE passes(Append(msgs, Info("count_below_threshold", <<open>>)))

\* verify_application from the end of the pagination loop on: the breakdown
\* of the traces, then lines 239-281 (after the first fetch_vulns) or lines
\* 270-281 (after the one of line 269).
verify_after_fetch(all, new_offset, reported) ==
    LET tally == severities_breakdown(all)
        breakdown == tally.breakdown
        result == job_outcome_policy_result.result
        loop_done == /\ traces' = all
                     /\ offset' = new_offset
                     /\ count' = reported
                     /\ pages' = pages + 1
                     /\ UNCHANGED fetches
    IN IF tally.KeyError
       THEN /\ Uncaught(messages, "KeyError_severity")
            /\ loop_done
            /\ UNCHANGED <<severity_breakdown, open_vulnerabilities, summary>>
       ELSE /\ severity_breakdown' = breakdown
            /\ IF fetches > 1
               THEN loop_done /\ threshold_check(messages, breakdown)
               ELSE IF result = "false"
               THEN /\ loop_done
                    /\ policy_fails(messages, breakdown)
                    /\ UNCHANGED open_vulnerabilities
               ELSE IF result = "true"
               THEN /\ loop_done
                    /\ passes(Append(messages,
                                     Info("step_passes_matching_policy", <<>>)))
                    /\ UNCHANGED <<open_vulnerabilities, summary>>
               ELSE LET msgs == Append(messages,
                                       Info("no_matching_job_outcome_policy", <<>>))
                    IN IF DOMAIN breakdown = {}
                       THEN \* line 269: fetch_vulns once more
                            /\ traces' = <<>>
                            /\ offset' = 0
                            /\ pages' = 0
                            /\ count' = reported
                            /\ fetches' = fetches + 1
                            /\ Goto(msgs, "fetch_vulns")
                            /\ UNCHANGED <<open_vulnerabilities, summary>>
                       ELSE loop_done /\ threshold_check(msgs, breakdown)

\* One iteration of the pagination loop of fetch_vulns (lines 174-185); the
\* iteration that ends the loop runs verify_application to its end.
fetch_page ==
    /\ pc = "fetch_vulns"
    /\ send(Post("traces/{id}/filter?limit=25&offset={offset}", app_id,
                 offset, filter_body))
    /\ \/ /\ last_response' = Answer(FALSE, <<>>)
          /\ Uncaught(messages, "RequestException")
          /\ UNCHANGED <<fetchvars, severity_breakdown, open_vulnerabilities,
                         summary>>
       \/ \E traces_page \in SeqsUpTo(Traces, MaxTraces - Len(traces)),
             reported \in 0..MaxCount :
            LET received_traces == Len(traces_page)
                new_offset == offset + received_traces
            IN /\ last_response' = Answer(TRUE, <<>>)
               /\ IF loop_ends(new_offset, reported, received_traces)
                  THEN verify_after_fetch(traces \o traces_page, new_offset,
                                          reported)
                  ELSE /\ traces' = traces \o traces_page
                       /\ offset' = new_offset
                       /\ count' = reported
                       /\ pages' = pages + 1
                       /\ Goto(messages, "fetch_vulns")
                       /\ UNCHANGED <<fetches, severity_breakdown,
                                      open_vulnerabilities, summary>>
    /\ UNCHANGED <<app_id, app_id_verified, cfgvars, job_outcome_policy_result>>

\* ------------------------------------------------------------ specification
\* The entry point: validate_connection, validate_organization,
\* determine_application_id, verify_application.
Next ==
    \/ validate_connection
    \/ validate_organization
    \/ resolve_application
    \/ perform_security_check
    \/ security_check_request
    \/ fetch_page

Spec == Init /\ [][Next]_vars

\* ------------------------------------------------------------ InputHelper
\* The names validate_inputs asks for, as the strings get_input rewrites.
API_KEY ==
    <<"A", "P", "I", "_", "K", "E", "Y">>
ORG_ID ==
    <<"O", "R", "G", "_", "I", "D">>
AUTH_HEADER ==
    <<"A", "U", "T", "H", "_", "H", "E", "A", "D", "E", "R">>
USER_NAME ==
    <<"U", "S", "E", "R", "_", "N", "A", "M", "E">>
SERVICE_KEY ==
    <<"S", "E", "R", "V", "I", "C", "E", "_", "K", "E", "Y">>
APP_ID ==
    <<"A", "P", "P", "_", "I", "D">>
APP_NAME ==
    <<"A", "P", "P", "_", "N", "A", "M", "E">>
API_URL ==
    <<"A", "P", "I", "_", "U", "R", "L">>
JOB_START_TIME ==
    <<"J", "O", "B", "_", "S", "T", "A", "R", "T", "_", "T", "I", "M", "E">>
SEVERITIES ==
    <<"S", "E", "V", "E", "R", "I", "T", "I", "E", "S">>
FAIL_THRESHOLD ==
    <<"F", "A", "I", "L", "_", "T", "H", "R", "E", "S", "H", "O", "L", "D">>
BUILD_NUMBER ==
    <<"B", "U", "I", "L", "D", "_", "N", "U", "M", "B", "E", "R">>

INPUT_ == <<"I", "N", "P", "U", "T", "_">>
CONTRAST_ == <<"C", "O", "N", "T", "R", "A", "S", "T", "_">>

RECURSIVE replace(_, _)
\* str.replace(old, ""): s without the occurrences of the character old.
replace(s, old) ==
    IF s = <<>> THEN <<>>
    ELSE IF Head(s) = old THEN replace(Tail(s), old)
         ELSE <<Head(s)>> \o replace(Tail(s), old)

\* The three variables of a name, in the order get_input tries them.
gh_action_format(name) == INPUT_ \o replace(name, "_")
contrast_prefix_format(name) == CONTRAST_ \o name

get_input_first_non_empty(name) ==
    IF gh_action_format(name) \in DOMAIN environ
       /\ environ[gh_action_format(name)] /= EmptyStr
    THEN environ[gh_action_format(name)]
    ELSE IF name \in DOMAIN environ /\ environ[name] /= EmptyStr
         THEN environ[name]
         ELSE IF contrast_prefix_format(name) \in DOMAIN environ
              THEN environ[contrast_prefix_format(name)]
              ELSE None

\* InputHelper.get_input: "x in os.environ" is x \in DOMAIN environ.
get_input(name) ==
    IF gh_action_format(name) \in DOMAIN environ
    THEN environ[gh_action_format(name)]
    ELSE IF name \in DOMAIN environ
         THEN environ[name]
         ELSE IF contrast_prefix_format(name) \in DOMAIN environ
              THEN environ[contrast_prefix_format(name)]
              ELSE None

\* str.split(sep) for a separator of one character: the pieces between the
\* separators, empty pieces included; "".split(",") is [""].
RECURSIVE split(_, _)
split(s, sep) ==
    IF \A i \in 1..Len(s) : s[i] /= sep THEN <<s>>
    ELSE LET at == CHOOSE i \in 1..Len(s) :
                       s[i] = sep /\ \A j \in 1..(i - 1) : s[j] /= sep
         IN <<SubSeq(s, 1, at - 1)>> \o split(SubSeq(s, at + 1, Len(s)), sep)

\* str.strip(): s without its leading and trailing whitespace.
strip(s) ==
    LET inside == { i \in 1..Len(s) : s[i] \notin Whitespace }
    IN IF inside = {} THEN <<>>
       ELSE SubSeq(s, CHOOSE i \in inside : \A j \in inside : i <= j,
                   CHOOSE i \in inside : \A j \in inside : i >= j)

ALL_SEVERITIES == <<CRITICAL, HIGH, MEDIUM, LOW, NOTE>>

Contains(list, x) == \E i \in 1..Len(list) : list[i] = x

stripped(pieces) == [i \in 1..Len(pieces) |-> strip(pieces[i])]

\* The labels are looked for among the pieces as typed, not stripped.
input_severities_unstripped(severities_csv) == split(Upper(severities_csv), ",")

\* Line 125: list(map(str.strip, severities_csv.upper().split(","))).
input_severities(severities_csv) == stripped(split(Upper(severities_csv), ","))

\* InputHelper.get_included_severities, lines 127-131.
get_included_severities(severities_csv) ==
    SelectSeq(ALL_SEVERITIES,
              LAMBDA severity :
                  Contains(input_severities(severities_csv), severity))

\* ------------------------------------------------- strings of validate_inputs
startswith(s, prefix) ==
    Len(s) >= Len(prefix) /\ SubSeq(s, 1, Len(prefix)) = prefix

\* The first position of character c in s at or after position from, or
\* Len(s) + 1.
find(s, c, from) ==
    IF \E i \in from..Len(s) : s[i] = c
    THEN CHOOSE i \in from..Len(s) :
             s[i] = c /\ \A j \in from..(i - 1) : s[j] /= c
    ELSE Len(s) + 1

Digits == <<"0", "1", "2", "3", "4", "5", "6", "7", "8", "9">>

IsDigit(c) == \E d \in 1..10 : Digits[d] = c

DigitValue(c) == (CHOOSE d \in 1..10 : Digits[d] = c) - 1

RECURSIVE DecimalValue(_)
DecimalValue(digits) ==
    IF digits = <<>> THEN 0
    ELSE 10 * DecimalValue(SubSeq(digits, 1, Len(digits) - 1))
         + DigitValue(digits[Len(digits)])

\* int(s) of a string: surrounding whitespace and one sign are allowed, then
\* decimal digits only; anything else raises ValueError.  (Underscores between
\* digits, which int() also takes, are not modelled.)
int(s) ==
    LET t == strip(s)
        signed == t /= <<>> /\ t[1] \in {"+", "-"}
        digits == IF signed THEN Tail(t) ELSE t
    IN IF digits /= <<>> /\ \A i \in 1..Len(digits) : IsDigit(digits[i])
       THEN [ValueError |-> FALSE,
             value |-> IF signed /\ t[1] = "-" THEN 0 - DecimalValue(digits)
                       ELSE DecimalValue(digits)]
       ELSE [ValueError |-> TRUE, value |-> 0]

\* urlparse(url) of a url "<scheme>://<netloc><path>" without query or
\* fragment.
urlparse(url) ==
    LET colon == find(url, ":", 1)
        slash == find(url, "/", colon + 3)
    IN [scheme |-> SubSeq(url, 1, colon - 1),
        netloc |-> SubSeq(url, colon + 3, slash - 1),
        path |-> SubSeq(url, slash, Len(url))]

\* The printable ASCII characters, from code 32 on; the double quote, the
\* backslash and the backtick are written by name.
Printable ==
    <<" ", "!", "quote", "#", "$", "%", "&", "'", "(", ")", "*", "+", ",",
      "-", ".", "/", "0", "1", "2", "3", "4", "5", "6", "7", "8", "9", ":",
      ";", "<", "=", ">", "?", "@", "A", "B", "C", "D", "E", "F", "G", "H",
      "I", "J", "K", "L", "M", "N", "O", "P", "Q", "R", "S", "T", "U", "V",
      "W", "X", "Y", "Z", "[", "backslash", "]", "^", "_", "backtick", "a", "b", "c",
      "d", "e", "f", "g", "h", "i", "j", "k", "l", "m", "n", "o", "p", "q",
      "r", "s", "t", "u", "v", "w", "x", "y", "z", "{", "|", "}", "~">>

\* bytes(s, "UTF-8") of an ASCII string.
bytes(s) ==
    [i \in 1..Len(s) |->
        31 + CHOOSE k \in 1..Len(Printable) : Printable[k] = s[i]]

Base64Alphabet ==
    <<"A", "B", "C", "D", "E", "F", "G", "H", "I", "J", "K", "L", "M", "N",
      "O", "P", "Q", "R", "S", "T", "U", "V", "W", "X", "Y", "Z", "a", "b",
      "c", "d", "e", "f", "g", "h", "i", "j", "k", "l", "m", "n", "o", "p",
      "q", "r", "s", "t", "u", "v", "w", "x", "y", "z", "0", "1", "2", "3",
      "4", "5", "6", "7", "8", "9", "+", "/">>

\* b64encode, read back as text: three bytes give four characters, the last
\* group is filled with zero bits and marked with "=".
b64encode(data) ==
    LET missing == (3 - (Len(data) % 3)) % 3
        padded == data \o [i \in 1..missing |-> 0]
        group(g) == padded[3 * g - 2] * 65536 + padded[3 * g - 1] * 256
                    + padded[3 * g]
        sextet(g, k) ==
            CASE k = 1 -> group(g) \div 262144
              [] k = 2 -> (group(g) \div 4096) % 64
              [] k = 3 -> (group(g) \div 64) % 64
              [] OTHER -> group(g) % 64
        length == 4 * (Len(padded) \div 3)
    IN [i \in 1..length |->
          IF i > length - missing THEN "="
          ELSE Base64Alphabet[sextet((i + 3) \div 4, ((i - 1) % 4) + 1) + 1]]

\* ---------------------------------------------- the helpers called directly
\* The values a variable of the environment may hold.
Unset == <<"Unset">>
SomeValues == {Unset, EmptyStr, <<"a">>, <<"b">>}

\* One variable set to a value, or nothing when the value is Unset.
Setting(variable, value) ==
    IF value = Unset THEN NoEnviron ELSE variable :> value

\* Environments that define any of the three variables of API_KEY.
LayeredEnvirons ==
    { Setting(gh_action_format(API_KEY), g) @@ Setting(API_KEY, p)
        @@ Setting(contrast_prefix_format(API_KEY), c) :
      g \in SomeValues, p \in SomeValues, c \in SomeValues }

MaxTokens == 2

Tokens ==
    { <<"c", "r", "i", "t", "i", "c", "a", "l">>,
      <<"H", "I", "G", "H">>,
      <<" ", "N", "o", "t", "e", " ">>,
      <<"C", "r", "i", "t">>,
      <<"M", "E", "D", "I", "U", "M">>,
      <<"l", "o", "w", "\t">>,
      <<>> }

RECURSIVE join(_, _)
\* sep.join(pieces)
join(pieces, sep) ==
    IF Len(pieces) = 0 THEN <<>>
    ELSE IF Len(pieces) = 1 THEN pieces[1]
         ELSE pieces[1] \o <<sep>> \o join(Tail(pieces), sep)

\* Comma separated inputs of up to MaxTokens + 1 pieces.
SeveritiesInputs == { join(t, ",") : t \in SeqsUpTo(Tokens, MaxTokens + 1) }

Unconstructed ==
    /\ app_id = None
    /\ app_name = None
    /\ baseline_build_number_regex = NoPattern
    /\ build_number = None
    /\ fail_threshold = 0
    /\ job_start_time = 0
    /\ job_start_time_provided = FALSE
    /\ severities = <<>>
    /\ app_id_verified = FALSE
    /\ github_actions = FALSE
    /\ contrast_api_key = None
    /\ contrast_authorization = None

\* The instance and its run, which a call of a helper leaves alone.
runvars == <<app_id, app_id_verified, app_name, baseline_build_number_regex,
             build_number, fail_threshold, job_start_time,
             job_start_time_provided, severities, github_actions,
             contrast_api_key, contrast_authorization,
             job_outcome_policy_result, fetchvars, severity_breakdown,
             open_vulnerabilities, requests, sent_headers, last_response,
             messages, summary, outcome, exit_code>>

\* A call of InputHelper.get_input in one of the layered environments.
GetInputInit ==
    /\ environ \in LayeredEnvirons
    /\ config = NoConfig
    /\ returned = NoCall
    /\ pc = "get_input"
    /\ Unconstructed
    /\ RunStart

call_get_input ==
    /\ pc = "get_input"
    /\ \E name \in {API_KEY, ORG_ID} :
         returned' = [fn |-> "get_input", arg |-> name,
                      value |-> get_input(name)]
    /\ pc' = "returned"
    /\ UNCHANGED <<environ, config, runvars>>

GetInputNext == call_get_input

GetInputSpec == GetInputInit /\ [][GetInputNext]_vars

\* A call of InputHelper.get_included_severities, which reads no variable of
\* the environment.
SeveritiesInit ==
    /\ environ = NoEnviron
    /\ config = NoConfig
    /\ returned = NoCall
    /\ pc = "get_included_severities"
    /\ Unconstructed
    /\ RunStart

call_get_included_severities ==
    /\ pc = "get_included_severities"
    /\ \E severities_csv \in SeveritiesInputs :
         returned' = [fn |-> "get_included_severities", arg |-> severities_csv,
                      value |-> get_included_severities(severities_csv)]
    /\ pc' = "returned"
    /\ UNCHANGED <<environ, config, runvars>>

SeveritiesNext == call_get_included_severities

SeveritiesSpec == SeveritiesInit /\ [][SeveritiesNext]_vars

\* --------------------------------------------------------- validate_inputs
\* A value of the configuration record whose Python type is part of the
\* value: a str here, where a list of labels is expected.
Str(value) == [type |-> "str", value |-> value]

https == <<"h", "t", "t", "p", "s", ":", "/", "/">>
http == <<"h", "t", "t", "p", ":", "/", "/">>
ApiPath ==
    <<"/", "C", "o", "n", "t", "r", "a", "s", "t", "/", "a", "p", "i", "/",
      "n", "g", "/">>
DefaultUrl ==
    <<"h", "t", "t", "p", "s", ":", "/", "/", "a", "p", "p", ".", "c", "o",
      "n", "t", "r", "a", "s", "t", "s", "e", "c", "u", "r", "i", "t", "y",
      ".", "c", "o", "m", "/", "C", "o", "n", "t", "r", "a", "s", "t", "/",
      "a", "p", "i", "/", "n", "g", "/">>
DefaultSeverities ==
    <<"C", "R", "I", "T", "I", "C", "A", "L", ",", "H", "I", "G", "H">>

\* Lines 19-23 and 25-29: an input that must be there and not empty.
required_input(name, key, label) ==
    IF Truthy(get_input(name))
    THEN [config |-> key :> get_input(name), errors |-> <<>>]
    ELSE [config |-> NoConfig, errors |-> <<label>>]

authorization_input_credentials_first ==
    LET authorization == get_input(AUTH_HEADER)
        username == get_input(USER_NAME)
        service_key == get_input(SERVICE_KEY)
    IN IF Truthy(username) /\ Truthy(service_key)
       THEN [config |-> "AUTHORIZATION" :>
                            b64encode(bytes(username \o <<":">>
                                            \o service_key)),
             errors |-> <<>>]
       ELSE IF Truthy(authorization)
            THEN [config |-> "AUTHORIZATION" :> authorization, errors |-> <<>>]
            ELSE [config |-> NoConfig,
                  errors |-> <<"authHeader or (userName and serviceKey)">>]

\* Lines 31-42.
authorization_input ==
    LET authorization == get_input(AUTH_HEADER)
        username == get_input(USER_NAME)
        service_key == get_input(SERVICE_KEY)
    IN IF Truthy(authorization)
       THEN [config |-> "AUTHORIZATION" :> authorization, errors |-> <<>>]
       ELSE IF Truthy(username) /\ Truthy(service_key)
            THEN [config |-> "AUTHORIZATION" :>
                                 b64encode(bytes(username \o <<":">>
                                                 \o service_key)),
                  errors |-> <<>>]
            ELSE [config |-> NoConfig,
                  errors |-> <<"authHeader or (userName and serviceKey)">>]

application_input_keeping_both ==
    LET id == IF Truthy(get_input(APP_ID))
              THEN "APP_ID" :> get_input(APP_ID) ELSE NoConfig
        name == IF Truthy(get_input(APP_NAME))
                THEN "APP_NAME" :> get_input(APP_NAME) ELSE NoConfig
    IN [config |-> id @@ name,
        errors |-> IF DOMAIN (id @@ name) = {} THEN <<"appId or appName">>
                   ELSE <<>>]

\* Lines 44-51.
application_input ==
    IF Truthy(get_input(APP_ID))
    THEN [config |-> "APP_ID" :> get_input(APP_ID), errors |-> <<>>]
    ELSE IF Truthy(get_input(APP_NAME))
         THEN [config |-> "APP_NAME" :> get_input(APP_NAME), errors |-> <<>>]
         ELSE [config |-> NoConfig, errors |-> <<"appId or appName">>]

\* Lines 53-56: get_input("API_URL") or the default.
api_url == IF Truthy(get_input(API_URL)) THEN get_input(API_URL) ELSE DefaultUrl

\* Lines 57-58.
api_url_input ==
    [config |-> NoConfig,
     errors |-> IF ~startswith(api_url, https) /\ ~startswith(api_url, http)
                THEN <<"apiUrl (must start with http:// or https://)">>
                ELSE <<>>]

\* Lines 60-65.
job_start_time_input ==
    IF Truthy(get_input(JOB_START_TIME))
    THEN IF int(get_input(JOB_START_TIME)).ValueError
         THEN [config |-> NoConfig,
               errors |-> <<"jobStartTime (must be a number)">>]
         ELSE [config |-> "JOB_START_TIME" :> int(get_input(JOB_START_TIME)).value,
               errors |-> <<>>]
    ELSE [config |-> NoConfig, errors |-> <<>>]

\* The checks of lines 19-65, in the order of the code.
checked_inputs ==
    << required_input(API_KEY, "API_KEY", "apiKey"),
       required_input(ORG_ID, "ORG_ID", "orgId"),
       authorization_input, application_input, api_url_input,
       job_start_time_input >>

RECURSIVE errors_of(_)
errors_of(checks) ==
    IF checks = <<>> THEN <<>>
    ELSE Head(checks).errors \o errors_of(Tail(checks))

RECURSIVE config_of(_)
config_of(checks) ==
    IF checks = <<>> THEN NoConfig
    ELSE Head(checks).config @@ config_of(Tail(checks))

\* Lines 74-77, when ORG_ID is in the record.
base_url(org_id) ==
    LET url_parts == urlparse(api_url)
        url == IF url_parts.path /= ApiPath
               THEN url_parts.scheme \o <<":", "/", "/">> \o url_parts.netloc
                    \o ApiPath
               ELSE api_url
    IN url \o org_id \o <<"/">>

\* Lines 80-81: the upper-cased input, a str.
severities_input ==
    Str(Upper(IF Truthy(get_input(SEVERITIES)) THEN get_input(SEVERITIES)
              ELSE DefaultSeverities))

\* Lines 83-84: int(get_input("FAIL_THRESHOLD") or 0).
fail_threshold_input ==
    IF Truthy(get_input(FAIL_THRESHOLD)) THEN int(get_input(FAIL_THRESHOLD))
    ELSE [ValueError |-> FALSE, value |-> 0]

\* validate_inputs of src/verify.py.  The errors of lines 19-65 are printed
\* in one message and set_failed exits; otherwise the rest of the record is
\* filled in, where int(fail_threshold) may raise.
validate_inputs ==
    /\ pc = "validate_inputs"
    /\ LET errors == errors_of(checked_inputs)
           checked == config_of(checked_inputs)
       IN IF errors /= <<>>
          THEN /\ set_failed(Append(messages,
                                    Error("missing_required_inputs_listed",
                                          errors)),
                             Error("missing_required_inputs", <<>>),
                             "FailInputs")
               /\ UNCHANGED config
          ELSE IF fail_threshold_input.ValueError
               THEN /\ Uncaught(messages, "ValueError")
                    /\ UNCHANGED config
               ELSE /\ config' =
                         checked
                         @@ ("BASE_URL" :> base_url(checked["ORG_ID"]))
                         @@ ("SEVERITIES" :> severities_input)
                         @@ ("FAIL_THRESHOLD" :> fail_threshold_input.value)
                         @@ ("BUILD_NUMBER" :> get_input(BUILD_NUMBER))
                    /\ Goto(messages, "construct")
    /\ UNCHANGED <<environ, returned, app_id, app_id_verified, app_name,
                   baseline_build_number_regex, build_number, fail_threshold,
                   job_start_time, job_start_time_provided, severities,
                   github_actions, contrast_api_key, contrast_authorization,
                   job_outcome_policy_result, fetchvars,
                   severity_breakdown, open_vulnerabilities, requests,
                   sent_headers, last_response, summary>>

\* config.get(key), config.get(key, default)
config_get(key, default) ==
    IF key \in DOMAIN config THEN config[key] ELSE default

\* What a loop over the configured value goes through: the labels of a list,
\* the one-character strings of a str.
elements(configured) ==
    IF configured.type = "str"
    THEN [i \in 1..Len(configured.value) |-> <<configured.value[i]>>]
    ELSE configured.value

\* ContrastVerifyAction(config): __init__, lines 18-33.
construct ==
    /\ pc = "construct"
    /\ app_id' = config_get("APP_ID", None)
    /\ app_name' = config_get("APP_NAME", None)
    /\ baseline_build_number_regex' =
           config_get("BASELINE_BUILD_NUMBER_PATTERN", NoPattern)
    /\ build_number' = config["BUILD_NUMBER"]
    /\ contrast_api_key' = config["API_KEY"]
    /\ contrast_authorization' = config["AUTHORIZATION"]
    /\ fail_threshold' = config["FAIL_THRESHOLD"]
    /\ job_start_time' = config_get("JOB_START_TIME", 0)
    /\ severities' = elements(config["SEVERITIES"])
    /\ app_id_verified' = FALSE
    /\ job_start_time_provided' = ("JOB_START_TIME" \in DOMAIN config)
    /\ pc' = "validate_connection"
    /\ UNCHANGED <<inputvars, github_actions, job_outcome_policy_result,
                   fetchvars, severity_breakdown, open_vulnerabilities,
                   requests, sent_headers, last_response, messages, summary,
                   outcome, exit_code>>

\* The environments validate_inputs is run in: every input is left out or
\* set, to a value that is accepted or to one that is not.
ConfigEnvirons ==
    { Setting(API_KEY, api_key) @@ Setting(gh_action_format(ORG_ID), org_id)
        @@ Setting(AUTH_HEADER, auth_header) @@ Setting(USER_NAME, user_name)
        @@ Setting(SERVICE_KEY, service_key) @@ Setting(APP_ID, id)
        @@ Setting(contrast_prefix_format(APP_NAME), name)
        @@ Setting(API_URL, url) @@ Setting(JOB_START_TIME, start)
        @@ Setting(SEVERITIES, csv) @@ Setting(FAIL_THRESHOLD, threshold)
        @@ Setting(BUILD_NUMBER, build) :
      api_key \in {Unset, EmptyStr, <<"k">>},
      org_id \in {Unset, <<"o">>},
      auth_header \in {Unset, EmptyStr, <<"a">>},
      user_name \in {Unset, <<"u">>},
      service_key \in {Unset, <<"s">>},
      id \in {Unset, <<"i", "1">>},
      name \in {Unset, <<"A", "p", "p">>},
      url \in {Unset, <<"f", "t", "p", ":", "/", "/", "h">>,
               <<"h", "t", "t", "p", ":", "/", "/", "h">>},
      start \in {Unset, <<"7">>, <<"x">>},
      csv \in {Unset, <<"h", "i", "g", "h", ",", " ", "l", "o", "w">>},
      threshold \in {Unset, <<"1">>, <<"x">>},
      build \in {Unset, <<"1", "2">>} }

ConfigInit ==
    /\ environ \in ConfigEnvirons
    /\ config = NoConfig
    /\ returned = NoCall
    /\ pc = "validate_inputs"
    /\ Unconstructed
    /\ RunStart

\* The entry point up to the constructed action: lines 296-297 of
\* src/verify.py.
ConfigNext == validate_inputs \/ construct

ConfigSpec == ConfigInit /\ [][ConfigNext]_vars

\* ---------------------------------------------------------- the entry point
\* The environments of a whole run: the authorization header, the
\* application and the job start time are left out or set, the other inputs
\* are given or left to their defaults.
MainEnvirons ==
    { Setting(API_KEY, <<"k">>) @@ Setting(gh_action_format(ORG_ID), <<"o">>)
        @@ Setting(AUTH_HEADER, auth_header) @@ Setting(USER_NAME, <<"u">>)
        @@ Setting(SERVICE_KEY, <<"s">>) @@ Setting(APP_ID, id)
        @@ Setting(contrast_prefix_format(APP_NAME), name)
        @@ Setting(JOB_START_TIME, start)
        @@ Setting(BUILD_NUMBER, <<"1", "2">>) :
      auth_header \in {Unset, <<"a">>},
      id \in {Unset, <<"i", "1">>},
      name \in {Unset, <<"A", "p", "p">>},
      start \in {Unset, EmptyStr, <<"4", "2">>, <<"x">>} }

\* The process before validate_inputs is called, inside or outside of GitHub
\* Actions.
MainInit ==
    /\ environ \in MainEnvirons
    /\ config = NoConfig
    /\ returned = NoCall
    /\ pc = "validate_inputs"
    /\ app_id = None
    /\ app_name = None
    /\ baseline_build_number_regex = NoPattern
    /\ build_number = None
    /\ fail_threshold = 0
    /\ job_start_time = 0
    /\ job_start_time_provided = FALSE
    /\ severities = <<>>
    /\ app_id_verified = FALSE
    /\ github_actions \in BOOLEAN
    /\ contrast_api_key = None
    /\ contrast_authorization = None
    /\ RunStart

\* __main__ of src/verify.py, lines 295-301.
MainNext == validate_inputs \/ construct \/ Next

MainSpec == MainInit /\ [][MainNext]_vars

\* ------------------------------------------------- baseline build pattern
\* The check of the baseline pattern is not part of validate_inputs above;
\* it is written here as the specification states it: the pattern is
\* optional, has to compile as a regular expression and, when a build number
\* is set too, must not fully match it.
BASELINE_BUILD_NUMBER_PATTERN ==
    <<"B", "A", "S", "E", "L", "I", "N", "E", "_", "B", "U", "I", "L", "D",
      "_", "N", "U", "M", "B", "E", "R", "_", "P", "A", "T", "T", "E", "R",
      "N">>

\* Characters that are no literal of a pattern.
Special == {"*", "+", "?", "(", ")", "[", "]", "{", "}", "|", "^", "$"}

RECURSIVE atoms_of(_)
\* re.compile for patterns of literal characters, "." and "*": the atoms, or
\* an error for a "*" with nothing to repeat and for the other special
\* characters, of which only an unbalanced "(" is ever an input.
atoms_of(pattern) ==
    IF pattern = <<>> THEN [error |-> FALSE, atoms |-> <<>>]
    ELSE IF Head(pattern) \in Special THEN [error |-> TRUE, atoms |-> <<>>]
    ELSE LET starred == Len(pattern) >= 2 /\ pattern[2] = "*"
             rest == atoms_of(SubSeq(pattern, IF starred THEN 3 ELSE 2,
                                     Len(pattern)))
         IN [error |-> rest.error,
             atoms |-> <<Atom(Head(pattern), starred)>> \o rest.atoms]

re_compile(pattern) == atoms_of(pattern)

baseline_pattern_input_compiled_only ==
    LET pattern == get_input(BASELINE_BUILD_NUMBER_PATTERN)
    IN IF ~Truthy(pattern) THEN [config |-> NoConfig, errors |-> <<>>]
       ELSE IF re_compile(pattern).error
            THEN [config |-> NoConfig,
                  errors |-> <<"baselineBuildNumberPattern">>]
            ELSE [config |-> "BASELINE_BUILD_NUMBER_PATTERN" :>
                                 Compiled(re_compile(pattern).atoms),
                  errors |-> <<>>]

baseline_pattern_input ==
    LET pattern == get_input(BASELINE_BUILD_NUMBER_PATTERN)
        build_number_input == get_input(BUILD_NUMBER)
    IN IF ~Truthy(pattern) THEN [config |-> NoConfig, errors |-> <<>>]
       ELSE IF re_compile(pattern).error
            THEN [config |-> NoConfig,
                  errors |-> <<"baselineBuildNumberPattern">>]
            ELSE IF /\ Truthy(build_number_input)
                    /\ fullmatch(re_compile(pattern).atoms, build_number_input)
                 THEN [config |-> NoConfig,
                       errors |-> <<"baselineBuildNumberPattern">>]
                 ELSE [config |-> "BASELINE_BUILD_NUMBER_PATTERN" :>
                                      Compiled(re_compile(pattern).atoms),
                       errors |-> <<>>]

\* The step of validation that checks the pattern: its error is reported
\* like the others and the process exits 1, before the action is
\* constructed and so before any request.
validate_baseline_pattern ==
    /\ pc = "validate_baseline_pattern"
    /\ IF baseline_pattern_input.errors /= <<>>
       THEN /\ set_failed(Append(messages,
                                 Error("missing_required_inputs_listed",
                                       baseline_pattern_input.errors)),
                          Error("missing_required_inputs", <<>>),
                          "FailInputs")
            /\ UNCHANGED config
       ELSE /\ config' = baseline_pattern_input.config
                         @@ ("BUILD_NUMBER" :> get_input(BUILD_NUMBER))
            /\ Goto(messages, "construct")
    /\ UNCHANGED <<environ, returned, app_id, app_id_verified, app_name,
                   baseline_build_number_regex, build_number, fail_threshold,
                   job_start_time, job_start_time_provided, severities,
                   github_actions, contrast_api_key, contrast_authorization,
                   job_outcome_policy_result, fetchvars,
                   severity_breakdown, open_vulnerabilities, requests,
                   sent_headers, last_response, summary>>

PatternInputs ==
    {Unset, EmptyStr, <<"1", "0", "*">>, <<"1", ".">>, <<"(">>, <<"*">>}

BaselineEnvirons ==
    { Setting(BASELINE_BUILD_NUMBER_PATTERN, pattern)
        @@ Setting(gh_action_format(BASELINE_BUILD_NUMBER_PATTERN), gh_pattern)
        @@ Setting(BUILD_NUMBER, build)
        @@ Setting(contrast_prefix_format(BUILD_NUMBER), contrast_build) :
      pattern \in PatternInputs,
      gh_pattern \in {Unset, <<"1", ".">>},
      build \in {Unset, EmptyStr, <<"1">>, <<"1", "0">>, <<"1", "2">>},
      contrast_build \in {Unset, <<"1", "0">>} }

BaselineInit ==
    /\ environ \in BaselineEnvirons
    /\ config = NoConfig
    /\ returned = NoCall
    /\ pc = "validate_baseline_pattern"
    /\ Unconstructed
    /\ RunStart

BaselineNext == validate_baseline_pattern

BaselineSpec == BaselineInit /\ [][BaselineNext]_vars

\* ------------------------------------------------------------------ claims
result == job_outcome_policy_result.result

LastMessage == messages[Len(messages)]

LastRequest == requests[Len(requests)]

\* The run is over and no backend request of it failed.
EndedWithoutRequestError ==
    pc = "done" /\ outcome /= "RequestException"

\* C1: a run of verify_application whose backend calls succeed ends in Pass,
\* Fail(policy) or Fail(threshold), along the stated transitions: result true
\* to Pass, result false to Fail(policy), result null to Pass when the count is
\* at most the threshold and to Fail(threshold) when it is above.
C1_StateMachine ==
    (EndedWithoutRequestError /\ result /= Absent) =>
        \/ result = "true" /\ outcome = "Pass"
        \/ result = "false" /\ outcome = "FailPolicy"
        \/ /\ result = "null"
           /\ outcome = "Pass"
           /\ open_vulnerabilities <= fail_threshold
        \/ /\ result = "null"
           /\ outcome = "FailThreshold"
           /\ open_vulnerabilities > fail_threshold

\* C2: when the security check answers true the run passes and exits 0,
\* whatever the findings endpoint answers.
C2_TruePasses ==
    (pc = "done" /\ result = "true") => (outcome = "Pass" /\ exit_code = 0)

\* C3: when the security check answers true or false, no backend request
\* follows the securityChecks POST.
C3_NoRequestAfterCheck ==
    result \in {"true", "false"} => LastRequest.path = "securityChecks"

\* C4: when the security check answers false with a policy of outcome O and
\* name N, the run exits 1 after the message 'Contrast verify gate fails with
\* status O - policy "N"', with or without a job start time and with or
\* without an is_job_start_time field in the policy.
C4_PolicyFailureReported ==
    (/\ pc = "done"
     /\ result = "false"
     /\ outcome \notin {"RequestException", "KeyError_severity"}) =>
        /\ exit_code = 1
        /\ outcome = "FailPolicy"
        /\ LastMessage.kind = "gate_fails_policy"
        /\ LastMessage.level = "error"
        /\ LastMessage.args = <<job_outcome_policy_result.job_outcome_policy.outcome,
                                job_outcome_policy_result.job_outcome_policy.name>>

\* C5: on the fallback path (result null) the run exits 1 exactly when the
\* open count is strictly above the fail threshold and exits 0 otherwise, and
\* the last message reports the count either way.
C5_ThresholdDecides ==
    (/\ pc = "done"
     /\ result = "null"
     /\ outcome \notin {"RequestException", "KeyError_severity"}) =>
        /\ open_vulnerabilities > fail_threshold =>
             /\ exit_code = 1
             /\ outcome = "FailThreshold"
             /\ LastMessage.kind = "count_above_threshold"
             /\ LastMessage.level = "error"
             /\ LastMessage.args = <<open_vulnerabilities, fail_threshold>>
        /\ open_vulnerabilities <= fail_threshold =>
             /\ exit_code = 0
             /\ outcome = "Pass"
             /\ LastMessage.kind = "count_below_threshold"
             /\ LastMessage.level = "info"
             /\ LastMessage.args = <<open_vulnerabilities>>

\* A count equal to a threshold above zero has passed.
C5_Witness ==
    /\ pc = "done"
    /\ result = "null"
    /\ fail_threshold = 1
    /\ open_vulnerabilities = 1
    /\ Len(traces) = 1
    /\ exit_code = 0

\* fetch_vulns has returned its breakdown of the traces it fetched last, and
\* the run is over.
TallyDone ==
    pc = "done" /\ outcome \in {"Pass", "FailPolicy", "FailThreshold"}

ConfiguredSeverities == { severities[i] : i \in 1..Len(severities) }

\* The upper-cased label of each severity the backend sends.
LabelOf(severity) ==
    CASE severity = <<"C", "r", "i", "t", "i", "c", "a", "l">> -> CRITICAL
      [] severity = <<"H", "i", "g", "h">> -> HIGH
      [] severity = <<"l", "o", "w">> -> LOW

RECURSIVE SumOfBuckets(_, _)
SumOfBuckets(breakdown, keys) ==
    IF keys = {} THEN 0
    ELSE LET k == CHOOSE k \in keys : TRUE
         IN breakdown[k] + SumOfBuckets(breakdown, keys \ {k})

\* C6: the open count is the sum of the buckets fetch_vulns returned, which
\* is the number of findings fetched minus the excluded ones; every finding
\* that is not excluded is counted once, in the bucket of its upper-cased
\* severity.
C6_CountIsFetchedMinusExcluded ==
    TallyDone =>
        LET fetched == 1..Len(traces)
            excluded == { i \in fetched : ~include_vuln(traces[i]) }
            bucket(k) == { i \in fetched \ excluded :
                           LabelOf(traces[i].severity) = k }
            buckets == SumOfBuckets(severity_breakdown,
                                    DOMAIN severity_breakdown)
        IN /\ \A k \in DOMAIN severity_breakdown :
                severity_breakdown[k] = Cardinality(bucket(k))
           /\ buckets = Len(traces) - Cardinality(excluded)
           /\ result = "null" => open_vulnerabilities = buckets

\* Two findings of different severities, fetched on two pages, were counted.
C6_Witness ==
    /\ TallyDone
    /\ result = "null"
    /\ pages = 2
    /\ Len(traces) = 2
    /\ open_vulnerabilities = 2
    /\ severity_breakdown[CRITICAL] = 1
    /\ severity_breakdown[HIGH] = 1

\* The version tags the pattern 10* matches in full.
FullyMatches10s(tag) ==
    /\ Len(tag) >= 1
    /\ tag[1] = "1"
    /\ \A i \in 2..Len(tag) : tag[i] = "0"

LeftOut(trace) ==
    /\ baseline_build_number_regex = Compiled(Pat10s)
    /\ \E i \in 1..Len(trace.app_version_tags) :
          FullyMatches10s(trace.app_version_tags[i])

\* C7: a finding is left out of its bucket exactly when a baseline pattern
\* is configured and one of its version tags matches the pattern in full;
\* without a pattern, without tags or without a full match it is counted.
C7_LeftOutIffFullMatch ==
    TallyDone =>
        \A k \in DOMAIN severity_breakdown :
            severity_breakdown[k] =
                Cardinality({ i \in 1..Len(traces) :
                              /\ LabelOf(traces[i].severity) = k
                              /\ ~LeftOut(traces[i]) })

\* With the pattern 10* configured, the finding tagged 12 was counted and the
\* finding tagged 2 and 10 was left out.
C7_Witness ==
    /\ TallyDone
    /\ baseline_build_number_regex.compiled
    /\ Len(traces) = 2
    /\ traces[1].app_version_tags = << <<"1", "2">> >>
    /\ traces[2].app_version_tags = << <<"2">>, <<"1", "0">> >>
    /\ severity_breakdown[HIGH] = 1

\* C8: for every list of findings the backend may return, fetch_vulns
\* produces a breakdown whose keys are exactly the configured severities.
C8_BreakdownForEveryList ==
    /\ outcome /= "KeyError_severity"
    /\ TallyDone => DOMAIN severity_breakdown = ConfiguredSeverities

\* C9: the pagination loop is bounded by the reported total and the
\* zero-result guard: it goes on only while fewer findings than the reported
\* total have been received.
C9_BoundedByReportedTotal ==
    (pc = "fetch_vulns" /\ pages > 0) => offset < count

\* C10: with only a name configured, an application id is adopted exactly
\* when the search returns one application of exactly that name, and it is
\* that application's id; otherwise the run exits 1 with a message naming the
\* number of matches and the id stays unset.
C10_NameResolution ==
    (/\ Len(requests) > 0
     /\ LastRequest.path = "applications/name"
     /\ last_response.ok) =>
        LET applications == last_response.applications
            exact == { i \in 1..Len(applications) :
                       applications[i].name = app_name }
        IN IF Cardinality(exact) = 1
           THEN /\ \A i \in exact : app_id = applications[i].app_id
                /\ pc = "perform_security_check"
                /\ exit_code = -1
                /\ LastMessage.kind = "application_id_for"
           ELSE /\ app_id = None
                /\ pc = "done"
                /\ exit_code = 1
                /\ LastMessage.kind = "could_not_match_one_app"
                /\ LastMessage.level = "error"
                /\ LastMessage.args = <<app_name, Cardinality(exact)>>

\* The id of the one exact match was adopted although the search also
\* returned an application whose name differs only in case.
C10_Witness ==
    /\ Len(requests) > 0
    /\ LastRequest.path = "applications/name"
    /\ Len(last_response.applications) = 2
    /\ last_response.applications[1].name = <<"a", "p", "p">>
    /\ app_id = <<"i", "2">>

\* The requests of the run that resolve or check the application.
ResolutionRequests ==
    { i \in 1..Len(requests) :
        requests[i].path \in {"applications/{id}", "applications/name"} }

\* The existence check of a configured id is the last request sent.
ExistenceChecked ==
    /\ app_name = None
    /\ Len(requests) > 0
    /\ LastRequest.path = "applications/{id}"

\* C11: with an application id configured, resolving issues the existence
\* check GET applications/{id} for that id; an error of it ends the run with
\* exit status 1 and an error message naming the id, and a successful check
\* lets the run go on with the configured id.
C11_ExistenceCheck ==
    /\ app_name = None => app_id \in AppIds
    /\ (app_name = None
        /\ pc \in {"perform_security_check", "securityChecks", "fetch_vulns"})
          => /\ Len(requests) >= 3
             /\ requests[3] = Get("applications/{id}", app_id)
    /\ ExistenceChecked =>
          /\ LastRequest = Get("applications/{id}", app_id)
          /\ IF last_response.ok
             THEN /\ pc = "perform_security_check"
                  /\ exit_code = -1
                  /\ app_id_verified
                  /\ LastMessage.kind = "using_provided_application_id"
                  /\ LastMessage.args = <<app_id>>
             ELSE /\ pc = "done"
                  /\ exit_code = 1
                  /\ outcome = "FailResolution"
                  /\ LastMessage.level = "error"
                  /\ LastMessage.kind = "unable_to_find_application"
                  /\ LastMessage.args = <<app_id>>

\* The existence check of the configured id failed and ended the run.
C11_Witness ==
    /\ ExistenceChecked
    /\ ~last_response.ok
    /\ app_id = <<"i", "1">>
    /\ exit_code = 1

\* C12: a resolved application id is cached for the run: once resolving has
\* succeeded, by id or by name, reading app_id sends no further request, so
\* a run sends at most one request that resolves or checks the application.
C12_ResolvedOnce == Cardinality(ResolutionRequests) <= 1

\* C18: an empty or absent build number means no version filter for both
\* endpoints: the security check then carries an empty app_version_tags
\* array and the findings filter no appVersionTags field, and a build number
\* B that is not empty is sent as [B] to both.
C18_NoVersionFilter ==
    \A i \in 1..Len(requests) :
        /\ requests[i].path = "securityChecks" =>
              requests[i].body.app_version_tags =
                  (IF Truthy(build_number) THEN <<build_number>> ELSE <<>>)
        /\ requests[i].path = "traces/{id}/filter?limit=25&offset={offset}" =>
              /\ requests[i].body.has_appVersionTags = Truthy(build_number)
              /\ requests[i].body.appVersionTags =
                    (IF Truthy(build_number) THEN <<build_number>> ELSE <<>>)

\* A request of the run failed: raise_for_status or the transport raised.
RequestFailed == Len(requests) > 0 /\ ~last_response.ok

\* C20: a request error is fatal at once and nothing is retried: a step in
\* which a request of any kind fails ends the run with exit status 1 and not
\* in Pass, and no step after a failed request sends a request, the failed
\* one included.
C20_FailFast ==
    [][/\ RequestFailed' =>
             (pc' = "done" /\ exit_code' = 1 /\ outcome' /= "Pass")
       /\ RequestFailed => requests' = requests]_vars

\* The second findings page failed after a first page that succeeded.
C20_Witness ==
    /\ RequestFailed
    /\ LastRequest.path = "traces/{id}/filter?limit=25&offset={offset}"
    /\ pages = 1
    /\ exit_code = 1

\* The variables of the environment that hold the input of a name, first to
\* last.
SourcesOf(name) ==
    IF name = API_KEY
    THEN << <<"I", "N", "P", "U", "T", "_", "A", "P", "I", "K", "E", "Y">>,
            <<"A", "P", "I", "_", "K", "E", "Y">>,
            <<"C", "O", "N", "T", "R", "A", "S", "T", "_", "A", "P", "I", "_", "K", "E", "Y">> >>
    ELSE << <<"I", "N", "P", "U", "T", "_", "O", "R", "G", "I", "D">>,
            <<"O", "R", "G", "_", "I", "D">>,
            <<"C", "O", "N", "T", "R", "A", "S", "T", "_", "O", "R", "G", "_", "I", "D">> >>

\* C15: get_input(name) returns the value of the first of INPUT_<name
\* without underscores>, <name>, CONTRAST_<name> that is defined in the
\* environment, also when that value is the empty string and a later source
\* holds more, and None only when none of the three is defined.
C15_FirstDefinedWins ==
    returned.fn = "get_input" =>
        LET sources == SourcesOf(returned.arg)
            defined == { i \in 1..3 : sources[i] \in DOMAIN environ }
        IN IF defined = {}
           THEN returned.value = None
           ELSE \E i \in defined :
                    /\ \A j \in defined : i <= j
                    /\ returned.value = environ[sources[i]]

\* INPUT_APIKEY is defined and empty, API_KEY holds a value, and the empty
\* string came back.
C15_Witness ==
    /\ returned.fn = "get_input"
    /\ returned.arg = API_KEY
    /\ SourcesOf(API_KEY)[1] \in DOMAIN environ
    /\ environ[SourcesOf(API_KEY)[1]] = EmptyStr
    /\ SourcesOf(API_KEY)[2] \in DOMAIN environ
    /\ environ[SourcesOf(API_KEY)[2]] = <<"a">>
    /\ returned.value = EmptyStr

RankOrder == <<CRITICAL, HIGH, MEDIUM, LOW, NOTE>>

\* Some piece of csv between two commas (or an end of the input) is the
\* label once its surrounding whitespace is dropped and it is upper-cased.
NamedIn(csv, label) ==
    \E a \in 1..(Len(csv) + 1), b \in 0..Len(csv) :
        /\ a <= b
        /\ a = 1 \/ csv[a - 1] = ","
        /\ b = Len(csv) \/ csv[b + 1] = ","
        /\ \A k \in a..b : csv[k] /= ","
        /\ \E c \in a..b, d \in a..b :
              /\ \A k \in a..(c - 1) : csv[k] \in {" ", "\t"}
              /\ \A k \in (d + 1)..b : csv[k] \in {" ", "\t"}
              /\ Upper(SubSeq(csv, c, d)) = label

\* C16: get_included_severities returns labels of the rank list CRITICAL,
\* HIGH, MEDIUM, LOW, NOTE in strictly descending rank, none twice, and a
\* label is returned exactly when a piece of the comma separated input is
\* that label up to case and surrounding whitespace; the empty input gives
\* the empty list.
C16_RankedSubset ==
    returned.fn = "get_included_severities" =>
        LET included == returned.value
            RankOf(i) == CHOOSE r \in 1..5 : RankOrder[r] = included[i]
        IN /\ \A i \in 1..Len(included) :
                 \E r \in 1..5 : RankOrder[r] = included[i]
           /\ \A i \in 1..Len(included), j \in 1..Len(included) :
                 i < j => RankOf(i) < RankOf(j)
           /\ \A r \in 1..5 :
                 Contains(included, RankOrder[r])
                     <=> NamedIn(returned.arg, RankOrder[r])
           /\ returned.arg = <<>> => included = <<>>

\* "low<tab>, Note ,HIGH" came back as HIGH, LOW, NOTE.
C16_Witness ==
    /\ returned.fn = "get_included_severities"
    /\ returned.arg = join(<< <<"l", "o", "w", "\t">>,
                             <<" ", "N", "o", "t", "e", " ">>, HIGH >>, ",")
    /\ returned.value = <<HIGH, LOW, NOTE>>

\* The value of a variable of the environment, None when it is not defined.
Given(variable) ==
    IF variable \in DOMAIN environ THEN environ[variable] ELSE None

IsSet(variable) == Given(variable) /= None /\ Given(variable) /= <<>>

INPUT_ORGID == <<"I", "N", "P", "U", "T", "_", "O", "R", "G", "I", "D">>
CONTRAST_APP_NAME ==
    <<"C", "O", "N", "T", "R", "A", "S", "T", "_", "A", "P", "P", "_", "N", "A", "M", "E">>

\* The inputs of the environment that are missing or invalid, by the label
\* the aggregated message has, or would have, for them.
InvalidInputs ==
    (IF IsSet(API_KEY) THEN {} ELSE {"apiKey"})
    \cup (IF IsSet(INPUT_ORGID) THEN {} ELSE {"orgId"})
    \cup (IF IsSet(AUTH_HEADER) \/ (IsSet(USER_NAME) /\ IsSet(SERVICE_KEY))
          THEN {} ELSE {"authHeader or (userName and serviceKey)"})
    \cup (IF IsSet(APP_ID) \/ IsSet(CONTRAST_APP_NAME)
          THEN {} ELSE {"appId or appName"})
    \cup (IF IsSet(API_URL) /\ Given(API_URL)[1] = "f"
          THEN {"apiUrl (must start with http:// or https://)"} ELSE {})
    \cup (IF Given(JOB_START_TIME) = <<"x">>
          THEN {"jobStartTime (must be a number)"} ELSE {})
    \cup (IF Given(FAIL_THRESHOLD) = <<"x">>
          THEN {"failThreshold (must be a number)"} ELSE {})

\* validate_inputs has run.
Validated == pc /= "validate_inputs"

\* validate_inputs returned a configuration record.
Accepted == "BASE_URL" \in DOMAIN config

\* The labels the aggregated message lists.
ReportedInputs ==
    IF Len(messages) > 0 /\ messages[1].kind = "missing_required_inputs_listed"
    THEN { messages[1].args[i] : i \in 1..Len(messages[1].args) }
    ELSE {}

\* C13: validate_inputs checks every input before it reports: whatever
\* inputs are missing or invalid (API key, organization id, authorization,
\* application, URL scheme, job start time, fail threshold), it names all of
\* them in one aggregated error message and exits with status 1 through
\* set_failed, and it accepts when none is.
C13_AllErrorsAggregated ==
    Validated =>
        IF InvalidInputs = {}
        THEN Accepted /\ exit_code = -1 /\ messages = <<>>
        ELSE /\ pc = "done"
             /\ exit_code = 1
             /\ outcome = "FailInputs"
             /\ ~Accepted
             /\ Len(messages) = 2
             /\ ReportedInputs = InvalidInputs

\* C14, as claimed: a configuration is accepted only when exactly one of
\* application id and application name is given; with neither and with both
\* validate_inputs exits 1, and an accepted record holds exactly one of the
\* keys APP_ID and APP_NAME.
C14_ExactlyOneIdentifier ==
    Validated =>
        /\ (IsSet(APP_ID) <=> IsSet(CONTRAST_APP_NAME)) =>
              (pc = "done" /\ exit_code = 1 /\ ~Accepted)
        /\ Accepted =>
              Cardinality(DOMAIN config \cap {"APP_ID", "APP_NAME"}) = 1

\* C14, amended: validate_inputs exits 1 naming "appId or appName" when
\* neither an application id nor an application name is given; when at least
\* one is given the application is no error, and an accepted record holds
\* exactly one of the keys APP_ID and APP_NAME: APP_ID with the given id
\* whenever an id is given, also when a name is given too, and APP_NAME with
\* the given name otherwise.
C14_IdentifierWithIdFirst ==
    Validated =>
        /\ (~IsSet(APP_ID) /\ ~IsSet(CONTRAST_APP_NAME)) =>
              /\ pc = "done" /\ exit_code = 1 /\ ~Accepted
              /\ "appId or appName" \in ReportedInputs
        /\ (IsSet(APP_ID) \/ IsSet(CONTRAST_APP_NAME)) =>
              "appId or appName" \notin ReportedInputs
        /\ Accepted =>
              IF IsSet(APP_ID)
              THEN /\ DOMAIN config \cap {"APP_ID", "APP_NAME"} = {"APP_ID"}
                   /\ config["APP_ID"] = Given(APP_ID)
              ELSE /\ DOMAIN config \cap {"APP_ID", "APP_NAME"} = {"APP_NAME"}
                   /\ config["APP_NAME"] = Given(CONTRAST_APP_NAME)

\* An id and a name were both given and the record, accepted, holds the id
\* only.
C14_Witness ==
    /\ Accepted
    /\ IsSet(APP_ID)
    /\ IsSet(CONTRAST_APP_NAME)
    /\ DOMAIN config \cap {"APP_ID", "APP_NAME"} = {"APP_ID"}

\* C17: the record validate_inputs returns holds SEVERITIES as a list of
\* labels, without duplicates and in rank order: get_included_severities of
\* the SEVERITIES input, and CRITICAL, HIGH when the input is absent.
C17_SeveritiesAsRankedList ==
    Accepted =>
        /\ config["SEVERITIES"].type = "list"
        /\ config["SEVERITIES"].value =
              (IF IsSet(SEVERITIES)
               THEN get_included_severities(Given(SEVERITIES))
               ELSE <<CRITICAL, HIGH>>)

INPUT_BASELINEBUILDNUMBERPATTERN ==
    <<"I", "N", "P", "U", "T", "_", "B", "A", "S", "E", "L", "I", "N", "E",
      "B", "U", "I", "L", "D", "N", "U", "M", "B", "E", "R", "P", "A", "T",
      "T", "E", "R", "N">>
CONTRAST_BUILD_NUMBER ==
    <<"C", "O", "N", "T", "R", "A", "S", "T", "_", "B", "U", "I", "L", "D",
      "_", "N", "U", "M", "B", "E", "R">>

\* The pattern and the build number the environment configures.
ConfiguredPattern ==
    IF INPUT_BASELINEBUILDNUMBERPATTERN \in DOMAIN environ
    THEN Given(INPUT_BASELINEBUILDNUMBERPATTERN)
    ELSE Given(BASELINE_BUILD_NUMBER_PATTERN)

ConfiguredBuildNumber ==
    IF BUILD_NUMBER \in DOMAIN environ THEN Given(BUILD_NUMBER)
    ELSE Given(CONTRAST_BUILD_NUMBER)

\* The configured pattern does not compile, or fully matches the configured
\* build number: "10*" matches 1 and 10, "1." matches 10 and 12.
PatternIsConfigurationError ==
    \/ ConfiguredPattern \in {<<"(">>, <<"*">>}
    \/ /\ ConfiguredPattern = <<"1", "0", "*">>
       /\ ConfiguredBuildNumber \in {<<"1">>, <<"1", "0">>}
    \/ /\ ConfiguredPattern = <<"1", ".">>
       /\ ConfiguredBuildNumber \in {<<"1", "0">>, <<"1", "2">>}

StepOf(request) ==
    CASE request.path = "profile/" -> 1
      [] request.path = "organizations/" -> 2
      [] request.path \in {"applications/{id}", "applications/name"} -> 3
      [] request.path = "securityChecks" -> 4
      [] request.path = "traces/{id}/filter?limit=25&offset={offset}" -> 5

\* An application request before request i.
ResolvedBefore(i) ==
    \E j \in 1..(i - 1) : StepOf(requests[j]) = 3

\* C21: the steps run in the order validation, connection check, organization
\* check, application resolution, evaluation: nothing is sent before the
\* configuration was validated, the log of requests follows the order of the
\* steps, and the security check and every findings request come after an
\* application request and carry the id the resolution left.
C21_StepOrder ==
    /\ pc \in {"validate_inputs", "construct"} => requests = <<>>
    /\ outcome \in {"FailInputs", "ValueError"} => requests = <<>>
    /\ requests /= <<>> => Accepted /\ StepOf(requests[1]) = 1
    /\ \A i \in 1..Len(requests) : \A j \in 1..Len(requests) :
          i < j => /\ StepOf(requests[i]) <= StepOf(requests[j])
                   /\ j = i + 1
                        => StepOf(requests[j]) <= StepOf(requests[i]) + 1
                   /\ StepOf(requests[j]) \in {1, 2}
                        => StepOf(requests[i]) < StepOf(requests[j])
    /\ \A i \in 1..Len(requests) :
          StepOf(requests[i]) \in {4, 5} =>
            /\ ResolvedBefore(i)
            /\ Truthy(app_id)
            /\ requests[i].arg = app_id
            /\ StepOf(requests[i]) = 4 =>
                  requests[i].body.application_id = app_id

\* A findings request of a run that resolved the application by name.
C21_Witness ==
    /\ Truthy(app_name)
    /\ Len(requests) > 0
    /\ StepOf(LastRequest) = 5
    /\ LastRequest.arg = app_id

\* base64 of the bytes of "u:s".
Base64OfUserAndKey == <<"d", "T", "p", "z">>

AuthorizationLabel == "authHeader or (userName and serviceKey)"

\* C22: validate_inputs takes a non-empty AUTH_HEADER as the authorization as
\* it is given, also when USER_NAME and SERVICE_KEY are given; without it,
\* USER_NAME and SERVICE_KEY, both non-empty, give the base64 of 'user:key';
\* with one of the two only, or none of the three, it reports the
\* authorization as missing and exits with status 1.
C22_Authorization ==
    Validated =>
        IF IsSet(AUTH_HEADER)
        THEN /\ AuthorizationLabel \notin ReportedInputs
             /\ Accepted => config["AUTHORIZATION"] = Given(AUTH_HEADER)
        ELSE IF Given(USER_NAME) = <<"u">> /\ Given(SERVICE_KEY) = <<"s">>
        THEN /\ AuthorizationLabel \notin ReportedInputs
             /\ Accepted => config["AUTHORIZATION"] = Base64OfUserAndKey
        ELSE /\ ~Accepted
             /\ AuthorizationLabel \in ReportedInputs
             /\ pc = "done"
             /\ exit_code = 1
             /\ outcome = "FailInputs"

\* An accepted record whose authorization comes from user name and service
\* key, the header being given as the empty string.
C22_Witness ==
    /\ Accepted
    /\ Given(AUTH_HEADER) = EmptyStr
    /\ config["AUTHORIZATION"] = Base64OfUserAndKey

JobStartTimeLabel == "jobStartTime (must be a number)"

\* The job start time the environment gives: the number written there, 0
\* when the input is absent or empty.
GivenJobStartTime ==
    IF Given(JOB_START_TIME) = <<"4", "2">> THEN 42 ELSE 0

\* C23: the job start time is optional.  A JOB_START_TIME that is given and
\* is no integer fails the validation with exit status 1; the job_start_time
\* of every security check and the startDate of every findings request are
\* the parsed number when one is given and 0 when the input is absent or
\* empty.
C23_JobStartTime ==
    /\ (Validated /\ Given(JOB_START_TIME) = <<"x">>) =>
          /\ ~Accepted
          /\ JobStartTimeLabel \in ReportedInputs
          /\ pc = "done"
          /\ exit_code = 1
          /\ requests = <<>>
    /\ (Validated /\ Given(JOB_START_TIME) /= <<"x">>) =>
          JobStartTimeLabel \notin ReportedInputs
    /\ \A i \in 1..Len(requests) :
          /\ StepOf(requests[i]) = 4 =>
                requests[i].body.job_start_time = GivenJobStartTime
          /\ StepOf(requests[i]) = 5 =>
                requests[i].body.startDate = GivenJobStartTime

\* A findings request of a run that was given the job start time 42.
C23_Witness ==
    /\ Len(requests) > 1
    /\ StepOf(LastRequest) = 5
    /\ LastRequest.body.startDate = 42
    /\ \E i \in 1..Len(requests) :
          StepOf(requests[i]) = 4 /\ requests[i].body.job_start_time = 42

\* The part of a string before its first blank.
FirstToken(s) ==
    LET blank == CHOOSE i \in 1..(Len(s) + 1) :
                     /\ i = Len(s) + 1 \/ s[i] = " "
                     /\ \A j \in 1..(i - 1) : s[j] /= " "
    IN SubSeq(s, 1, blank - 1)

\* The origin of a run outside and inside of GitHub Actions.
PlainOrigin ==
    <<"i", "n", "t", "e", "g", "r", "a", "t", "i", "o", "n", "-", "v", "e",
      "r", "i", "f", "y", "/">>
      \o version

GitHubOrigin ==
    <<"i", "n", "t", "e", "g", "r", "a", "t", "i", "o", "n", "-", "v", "e",
      "r", "i", "f", "y", "-", "g", "i", "t", "h", "u", "b", "-", "a", "c",
      "t", "i", "o", "n", "/">>
      \o version

\* A request has been sent in this step.
Sent == Len(requests') = Len(requests) + 1

\* C24: every request, GET or POST, goes out with the same five headers:
\* Accept and Content-Type application/json, the configured API key and
\* authorization, and the User-Agent; the User-Agent starts with
\* integration-verify/<version>, with -github-action before the slash exactly
\* under GitHub Actions, and the origin of a security check is that first
\* token.
C24_HeadersAndOrigin ==
    [][Sent =>
         LET request == requests'[Len(requests')]
             headers == sent_headers'
         IN /\ DOMAIN headers = {"Accept", "Content-Type", "Api-Key",
                                 "Authorization", "User-Agent"}
            /\ headers["Accept"] = <<"application/json">>
            /\ headers["Content-Type"] = <<"application/json">>
            /\ headers["Api-Key"] = Given(API_KEY)
            /\ headers["Authorization"] = config["AUTHORIZATION"]
            /\ requests /= <<>> => headers = sent_headers
            /\ FirstToken(headers["User-Agent"]) =
                  (IF github_actions THEN GitHubOrigin ELSE PlainOrigin)
            /\ Len(split_whitespace(headers["User-Agent"])) = 3
            /\ StepOf(request) = 4 =>
                  request.body.origin = FirstToken(headers["User-Agent"])]_vars

\* A security check sent under GitHub Actions, after GET requests.
C24_Witness ==
    /\ github_actions
    /\ Len(requests) > 2
    /\ requests[1].method = "GET"
    /\ StepOf(LastRequest) = 4
    /\ LastRequest.method = "POST"
    /\ LastRequest.body.origin = GitHubOrigin
    /\ FirstToken(sent_headers["User-Agent"]) = GitHubOrigin

\* How a run that got to the findings ends, told from the answers of the
\* backend and the configuration alone, whatever the host is.
HostFreeVerdict ==
    LET tally == severities_breakdown(traces)
        policy == job_outcome_policy_result.job_outcome_policy
        by_threshold == IF sum(tally.breakdown) > fail_threshold
                        THEN <<"FailThreshold", 1>> ELSE <<"Pass", 0>>
    IN IF ~last_response.ok THEN <<"RequestException", 1>>
       ELSE IF tally.KeyError THEN <<"KeyError_severity", 1>>
       ELSE IF fetches > 1 THEN by_threshold
       ELSE IF result = "false"
       THEN (IF ~job_start_time_provided /\ policy.is_job_start_time = Absent
             THEN <<"KeyError_is_job_start_time", 1>>
             ELSE <<"FailPolicy", 1>>)
       ELSE IF result = "true" THEN <<"Pass", 0>>
       ELSE by_threshold

PageRequested ==
    /\ Len(requests') = Len(requests) + 1
    /\ StepOf(requests'[Len(requests')]) = 5

\* C26: one call of fetch_vulns asks for its first page at offset 0 and for
\* each later page at the number of findings received so far, with limit 25,
\* so the offsets of a call strictly increase; the loop goes on after a page
\* exactly when that page was not empty and the accumulated number differs
\* from the total the page reported; a loop ended by reaching the reported
\* total holds as many findings as reported.
C26_Pagination ==
    [][PageRequested =>
         LET request == requests'[Len(requests')]
             goes_on == pc' = "fetch_vulns" /\ fetches' = fetches
             ends == last_response'.ok /\ ~goes_on /\ fetches' = fetches
         IN /\ request.offset = offset
            /\ request.offset = Len(traces)
            /\ pages = 0 => request.offset = 0
            /\ goes_on => /\ offset' > offset
                          /\ offset' = Len(traces')
                          /\ offset' /= count'
                          /\ pages' = pages + 1
            /\ ends => /\ offset' = Len(traces')
                       /\ offset' = count' \/ offset' = offset
                       /\ offset' = count' => Len(traces') = count'
            /\ (last_response'.ok /\ offset' /= count' /\ offset' > offset
                  /\ fetches' = fetches) => goes_on]_vars

\* The second page of a call has been asked for, at the offset 1 the first
\* page left, and it completed the two findings the backend reports.
C26_Witness ==
    /\ pages = 2
    /\ Len(requests) > 1
    /\ StepOf(LastRequest) = 5
    /\ LastRequest.offset = 1
    /\ requests[Len(requests) - 1].offset = 0
    /\ offset = 2
    /\ count = 2
    /\ Len(traces) = 2

\* The places of the messages of a kind.
PlacesOf(kind) == { i \in 1..Len(messages) : messages[i].kind = kind }

\* The run got through the findings to the handling of a failed policy.
PolicyHandled ==
    /\ pc = "done"
    /\ result = "false"
    /\ outcome \in {"FailPolicy", "KeyError_is_job_start_time"}

\* C27: when a failed policy is handled, the note on all open
\* vulnerabilities is there exactly when a build number that is not empty was
\* given and opt_into_query of the policy is false, the note on 0 as job
\* start time exactly when no job start time was given and the policy has
\* is_job_start_time set, each once and before the failure message.
C27_PolicyNotes ==
    PolicyHandled =>
        LET policy == job_outcome_policy_result.job_outcome_policy
            all_open == PlacesOf("all_open_vulnerabilities_considered")
            from_zero == PlacesOf("zero_passed_as_job_start_time")
            failure == PlacesOf("gate_fails_policy")
        IN /\ all_open /= {} <=>
                 /\ build_number \notin {None, EmptyStr}
                 /\ policy.opt_into_query = "false"
           /\ from_zero /= {} <=>
                 /\ ~job_start_time_provided
                 /\ policy.is_job_start_time = "true"
           /\ Cardinality(all_open) <= 1
           /\ Cardinality(from_zero) <= 1
           /\ \A i \in all_open \cup from_zero : \A j \in failure : i < j
           /\ outcome = "FailPolicy" => failure = {Len(messages)}

\* A failed policy reported after both notes.
C27_Witness ==
    /\ PolicyHandled
    /\ outcome = "FailPolicy"
    /\ PlacesOf("all_open_vulnerabilities_considered") /= {}
    /\ PlacesOf("zero_passed_as_job_start_time") /= {}
    /\ LastMessage.kind = "gate_fails_policy"

\* The requests for the first page of the findings.
FirstPageRequests ==
    { i \in 1..Len(requests) :
        StepOf(requests[i]) = 5 /\ requests[i].offset = 0 }

\* C28: the open findings are enumerated at most once in a run:
\* verify_application calls fetch_vulns a single time and the first page is
\* asked for once, whatever the configured severities and the findings are.
C28_EnumeratedOnce ==
    /\ fetches <= 1
    /\ Cardinality(FirstPageRequests) <= 1

\* Request i was answered without error: a request that fails is the last
\* of its run.
Answered(i) == i < Len(requests) \/ last_response.ok

\* The existence check of the run failed.
ExistenceCheckFailed ==
    /\ Len(requests) > 0
    /\ LastRequest.path = "applications/{id}"
    /\ ~last_response.ok

\* C29: _app_id_verified is set only when a GET applications/{id} for the id
\* the action holds was answered without error; a run whose existence check
\* failed ends there, with the flag unset and no security check sent.
C29_VerifiedAfterCheck ==
    /\ app_id_verified =>
          \E i \in 1..Len(requests) :
              /\ requests[i].method = "GET"
              /\ requests[i].path = "applications/{id}"
              /\ requests[i].arg = app_id
              /\ Answered(i)
    /\ ExistenceCheckFailed =>
          /\ ~app_id_verified
          /\ pc = "done"
          /\ exit_code = 1
          /\ \A i \in 1..Len(requests) : StepOf(requests[i]) < 4

\* The flag is set and the security check has been sent.
C29_Witness ==
    /\ app_id_verified
    /\ Len(requests) > 0
    /\ StepOf(LastRequest) = 4

\* The messages of set_failed (the list of inputs validate_inputs prints
\* before it calls set_failed is an error message of its own) and the
\* messages of a pass.
FailureMessages(msgs) ==
    { i \in 1..Len(msgs) :
        /\ msgs[i].level = "error"
        /\ msgs[i].kind /= "missing_required_inputs_listed" }

PassMessages(msgs) ==
    { i \in 1..Len(msgs) :
        msgs[i].kind \in {"step_passes_matching_policy",
                          "count_below_threshold"} }

\* C30: a failure is the end of the run and is reported once.  A state with
\* a failure message has exactly one, as its last message, exit status 1 and
\* no pass message, and no step adds a message, a summary or a request to it;
\* exit status 0 belongs to runs that ended in Pass, after the pass message.
C30_FailureIsTerminal ==
    [][/\ FailureMessages(messages) /= {} =>
             /\ messages' = messages
             /\ summary' = summary
             /\ requests' = requests
       /\ FailureMessages(messages') /= {} =>
             /\ FailureMessages(messages') = {Len(messages')}
             /\ PassMessages(messages') = {}
             /\ pc' = "done"
             /\ exit_code' = 1
             /\ outcome' /= "Pass"
       /\ exit_code' = 0 =>
             /\ pc' = "done"
             /\ outcome' = "Pass"
             /\ PassMessages(messages') = {Len(messages')}
       /\ pc = "done" => UNCHANGED vars]_vars

\* Under GitHub Actions a run has failed on the threshold: the summary was
\* written, then the failure message, and the process exited with status 1.
C30_Witness ==
    /\ pc = "done"
    /\ exit_code = 1
    /\ outcome = "FailThreshold"
    /\ summary /= <<>>
    /\ LastMessage.level = "error"

====
